---- MODULE Spec2Model ----
(***************************************************************************)
(* Model of the leave-one-subject-out evaluation driver (eval_DHG.py) and  *)
(* of the data loading it rests on (utils/load_data.py,                    *)
(* utils/load_utils.py).                                                   *)
(*                                                                         *)
(* Conventions.                                                            *)
(*  - A Python row data_row[k] (0-based column k) is the TLA+ tuple        *)
(*    element data_row[k+1]; a Python list position p is the TLA+          *)
(*    sequence position p+1.  Values stored in the rows (frame counts,     *)
(*    original_index, frame indices) keep their Python (0-based) value.    *)
(*  - Every value that an operation can return or raise is a record with   *)
(*    a field tag: "ok" (a result), "err" (a raised exception, with its    *)
(*    kind) or "none" (Python's None).                                     *)
(*  - Floating point values are kept as exact rationals <<num, den>> with  *)
(*    den > 0; the conversions to integer types truncate toward zero as    *)
(*    ndarray.astype does.                                                 *)
(***************************************************************************)
EXTENDS Integers, Sequences, FiniteSets

VARIABLES
    pc,          \* position of main: "off", "main", "init_cache", "subjects",
                 \* "loop", "evaluate", "done", "aborted"
    data_list,   \* the rows np.loadtxt read (eval_DHG.py:86)
    config,      \* the configuration get_config returned
    tasks,       \* init_cache's pool: row position -> "queued" | "running" | "done"
    worker,      \* pool worker -> position of the row it is loading, 0 when idle
    results,     \* pool results by row position, as the workers deliver them
    imap_pos,    \* number of results the loop of init_cache took from pool.imap
    building,    \* init_cache's local dict `cache` while the loop runs
    cache,       \* main's variable `cache`
    subjects,    \* np.unique(data_list[:, 2]).tolist()
    fold,        \* number of folds whose training_pipeline call has begun
    val_list,    \* training_pipeline's held-out rows (with column 7)
    item,        \* number of items evaluate_stats has drawn in this fold
    sample,      \* what the last __getitem__ call returned or raised
    fold_stats,  \* stats["preds"], stats["labels"] of the running fold
    all_preds,   \* main's all_preds, one entry per finished fold
    all_labels,  \* main's all_labels, one entry per finished fold
    preds_file,  \* the rows np.savetxt wrote to preds_labels.txt
    error,       \* the exception that ended main, if any
    gs,          \* one call of get_samples: its arguments and its result
    nz           \* one call of normalize: its argument and its result

vars == <<pc, data_list, config, tasks, worker, results, imap_pos, building, cache,
          subjects, fold, val_list, item, sample, fold_stats, all_preds,
          all_labels, preds_file, error, gs, nz>>

mainVars == <<pc, data_list, config, tasks, worker, results, imap_pos, building, cache,
              subjects, fold, val_list, item, sample, fold_stats, all_preds,
              all_labels, preds_file, error>>

----------------------------------------------------------------------------
(* Bounds of the model *)

MaxRows == 3
MaxSubject == 2
MaxFrames == 4
MaxT == 3
MaxWorkers == 2
MaxStart == 4
MaxSpan == 6
NPix == 2

(* Program constants *)

NumJoints == 22
palm_idx == 1
UInt8Mod == 256
PixelMax == 255

----------------------------------------------------------------------------
(* Values *)

None == [tag |-> "none"]
Err(kind) == [tag |-> "err", kind |-> kind]
Ok(v) == [tag |-> "ok", val |-> v]
IsErr(x) == x.tag = "err"
IsOk(x) == x.tag = "ok"
IsNone(x) == x.tag = "none"

Min(a, b) == IF a <= b THEN a ELSE b

SeqMin(s) == CHOOSE x \in {s[i] : i \in 1..Len(s)} : \A i \in 1..Len(s) : x <= s[i]
SeqMax(s) == CHOOSE x \in {s[i] : i \in 1..Len(s)} : \A i \in 1..Len(s) : x >= s[i]

\* a rational num/den (den > 0) truncated toward zero
Trunc(num, den) == IF num >= 0 THEN num \div den ELSE -((-num) \div den)

\* ndarray.astype(np.int32) of a rational; the model's values stay far inside
\* the 32-bit range, where the cast is the truncation
astype_int32(q) == Trunc(q[1], q[2])

\* ndarray.astype(np.uint8) of a rational
astype_uint8(q) == Trunc(q[1], q[2]) % UInt8Mod

----------------------------------------------------------------------------
(* utils/load_utils.py *)

\* normalize without the subtraction of the minimum
normalize_no_shift(image) ==
    LET i_min == SeqMin(image)
        i_max == SeqMax(image)
        denom == IF i_max > i_min THEN i_max - i_min ELSE 1
    IN  [p \in 1..Len(image) |-> astype_uint8(<<PixelMax * image[p], denom>>)]

\* normalize(image): the image is the sequence of its pixels
normalize(image) ==
    LET i_min == SeqMin(image)
        i_max == SeqMax(image)
        denom == IF i_max > i_min THEN i_max - i_min ELSE 1
    IN  [p \in 1..Len(image) |->
            astype_uint8(<<PixelMax * (image[p] - i_min), denom>>)]

\* np.arange(a, b): the integers a .. b-1, as rationals over 1
arange(a, b) == [i \in 1..(IF b > a THEN b - a ELSE 0) |-> <<a + i - 1, 1>>]

\* np.linspace without its endpoint: the step is (stop - start) / num
linspace_no_endpoint(start, stop, num) ==
    [i \in 1..num |-> <<start * num + (i - 1) * (stop - start), num>>]

\* np.linspace(start, stop, num): num evenly spaced rationals, the last one stop;
\* a single sample is start
linspace(start, stop, num) ==
    IF num = 1
    THEN <<(<<start, 1>>)>>
    ELSE [i \in 1..num |->
            <<start * (num - 1) + (i - 1) * (stop - start), num - 1>>]

\* get_samples whose short branch is np.arange(start, end)
get_samples_excl(start, end, T) ==
    LET N == end - start + 1
        samples == IF N < T THEN arange(start, end) ELSE linspace(start, end, T)
    IN  [i \in 1..Len(samples) |-> astype_int32(samples[i])]

get_samples(start, end, T) ==
    LET N == end - start + 1
        samples == IF N < T THEN arange(start, end + 1) ELSE linspace(start, end, T)
    IN  [i \in 1..Len(samples) |-> astype_int32(samples[i])]

----------------------------------------------------------------------------
(* The files under data_root.  A trial is the path identifier               *)
(* <<gesture, finger, subject, essai>>; the files of a trial hold one joint *)
(* row and one depth image per recorded frame.                              *)

\* frames recorded for a trial: short trials for gesture 1, long ones otherwise
DiskFrames(ident) == IF ident[1] = 1 THEN 2 ELSE MaxFrames

\* row f of skeletons_image.txt / skeletons_world.txt: NumJoints * D coordinates
JointFileRow(ident, D, f) ==
    [k \in 1..(NumJoints * D) |->
        1 + ((ident[1] + 2 * ident[3] + 5 * f + 7 * k) % 9)]

\* "<f>_depth.png" after Image.resize((W_new, H_new)): H_new * W_new pixels
DepthImage(ident, f, H_new, W_new) ==
    [p \in 1..(H_new * W_new) |->
        (40 * ident[1] + 10 * ident[3] + 60 * f + 90 * p) % UInt8Mod]

\* utils.gvar.grayscale_variation: not among the files modelled; no
\* configuration of the model selects it
grayscale_variation(image, params) == image

\* utils.augment.apply_augs: not among the files modelled; no configuration
\* of the model selects an augmentation
apply_augs(joint_points, image_sequence, aug) ==
    [joint |-> joint_points, image |-> image_sequence]

----------------------------------------------------------------------------
(* utils/load_utils.py, continued *)

\* load_joints(joint_path, frame_idxs, T); joint_path is the record
\* [base_dir, ident, D] that os.path.join builds the path from
load_joints(joint_path, frame_idxs, T) ==
    IF \E i \in 1..Len(frame_idxs) : frame_idxs[i] >= DiskFrames(joint_path.ident)
    THEN Err("IndexError")
    ELSE LET D == joint_path.D
             rows == [i \in 1..Len(frame_idxs) |->
                        JointFileRow(joint_path.ident, D, frame_idxs[i])]
             num_frames == Len(rows)
         IN  IF num_frames = 0
             THEN Err("IndexError")
             ELSE Ok([i \in 1..num_frames |->
                        [k \in 1..(NumJoints * D) |->
                            rows[i][k] - rows[1][palm_idx * D + ((k - 1) % D) + 1]]])

\* load_image_sequence(image_dir, frame_idxs, T, preprocess_dict), mode "shrec";
\* image_dir is the record [base_dir, ident]
load_image_sequence(image_dir, frame_idxs, T, preprocess_dict) ==
    LET H_new == preprocess_dict.resize.H_new
        W_new == preprocess_dict.resize.W_new
    IN  IF \E i \in 1..Len(frame_idxs) :
              frame_idxs[i] < 0 \/ frame_idxs[i] >= DiskFrames(image_dir.ident)
        THEN Err("FileNotFoundError")
        ELSE Ok([i \in 1..Len(frame_idxs) |->
                    LET image == DepthImage(image_dir.ident, frame_idxs[i], H_new, W_new)
                    IN  IF ~IsNone(preprocess_dict.gvar)
                        THEN grayscale_variation(image, preprocess_dict.gvar)
                        ELSE normalize(image)])

----------------------------------------------------------------------------
(* utils/load_data.py *)

\* a Python call of get_samples with the positional arguments args: the
\* function has three required parameters (start, end, T)
call_get_samples(args) ==
    IF Len(args) # 3
    THEN Err("TypeError")
    ELSE Ok(get_samples(args[1], args[2], args[3]))

\* SHREC_DHG_Dataset.get_image_joint
get_image_joint(data_row, base_dir, T, D, transform_dict) ==
    LET num_frames == data_row[7]
        frame_idxs == call_get_samples(<<num_frames, T>>)
        path_identifier == SubSeq(data_row, 1, 4)
    IN  IF IsErr(frame_idxs)
        THEN frame_idxs
        ELSE LET joint_points ==
                     load_joints([base_dir |-> base_dir, ident |-> path_identifier,
                                  D |-> D], frame_idxs.val, T)
                 image_sequence ==
                     load_image_sequence([base_dir |-> base_dir,
                                          ident |-> path_identifier],
                                         frame_idxs.val, T, transform_dict)
             IN  IF IsErr(joint_points)
                 THEN joint_points
                 ELSE IF IsErr(image_sequence)
                 THEN image_sequence
                 ELSE [tag |-> "ok", joint |-> joint_points.val,
                       image |-> image_sequence.val]

\* np.pad(..., mode="constant") on the time axis: k frames of `width` zeros
ZeroFrames(k, width, zero) == [i \in 1..k |-> [j \in 1..width |-> zero]]

\* SHREC_DHG_Dataset.__getitem__(idx); self is the dataset that __init__ built
getitem(self, idx) ==
    LET row == self.data_list[idx + 1]
        label == IF self.num_classes = 14 THEN row[5] - 1 ELSE row[6] - 1
        raw == IF ~IsNone(self.cache)
               THEN LET c_idx == row[8]
                    IN  IF c_idx + 1 > Len(self.cache.joint)
                            \/ c_idx + 1 > Len(self.cache.image)
                        THEN Err("IndexError")
                        ELSE [tag |-> "ok", joint |-> self.cache.joint[c_idx + 1],
                              image |-> self.cache.image[c_idx + 1]]
               ELSE get_image_joint(row, self.base_dir, self.T, self.D,
                                    self.transform_dict)
    IN  IF IsErr(raw)
        THEN raw
        ELSE LET auged == IF ~IsNone(self.transform_dict.aug)
                          THEN apply_augs(raw.joint, raw.image, self.transform_dict.aug)
                          ELSE [joint |-> raw.joint, image |-> raw.image]
                 joint_points == auged.joint
                 image_sequence ==
                     [i \in 1..Len(auged.image) |->
                         [p \in 1..Len(auged.image[i]) |->
                             <<auged.image[i][p], PixelMax>>]]
                 num_frames == Len(joint_points)
                 short == num_frames < self.T
             IN  [tag |-> "ok",
                  joint |-> IF short
                            THEN joint_points \o
                                 ZeroFrames(self.T - num_frames,
                                            Len(joint_points[1]), 0)
                            ELSE joint_points,
                  image |-> IF short
                            THEN image_sequence \o
                                 ZeroFrames(self.T - num_frames,
                                            Len(image_sequence[1]), <<0, 1>>)
                            ELSE image_sequence,
                  label |-> label]

\* get_loader(data_list, config, cache, train): the dataset of the DataLoader
get_loader(dl, cfg, c, train) ==
    [data_list |-> dl,
     base_dir |-> cfg.data_root,
     D |-> cfg.D,
     T |-> cfg.T,
     num_classes |-> cfg.num_classes,
     transform_dict |-> IF train THEN cfg.transforms.train ELSE cfg.transforms.eval,
     cache |-> c]

----------------------------------------------------------------------------
(* eval_DHG.py *)

RECURSIVE SortedSeq(_)
SortedSeq(S) ==
    IF S = {}
    THEN <<>>
    ELSE LET m == CHOOSE x \in S : \A y \in S : x <= y
         IN  <<m>> \o SortedSeq(S \ {m})

\* np.unique(data_list[:, 2]).tolist()
unique_subjects(dl) == SortedSeq({dl[i][3] : i \in 1..Len(dl)})

\* np.hstack([data_list, np.arange(len(data_list)).reshape(-1, 1)])
add_index(dl) == [i \in 1..Len(dl) |-> Append(dl[i], i - 1)]

\* the held-out rows, indexed after the subject's rows were selected
held_out_reindexed(dl, val_sub) ==
    add_index(SelectSeq(dl, LAMBDA r : r[3] = val_sub))

\* training_pipeline's val_list: the rows of val_sub, each with its
\* position in the full list as column 7
held_out(dl, val_sub) ==
    SelectSeq(add_index(dl), LAMBDA r : r[3] = val_sub)

\* the trials on disk and their rows of the data list:
\* (gesture, finger, subject, essai, label_14, label_28, frame_count)
Trials == {<<g, 1, s, 1>> : g \in {1, 2}, s \in 1..MaxSubject}
RowOf(t) == <<t[1], t[2], t[3], t[4], t[1], 2 * t[1] - 1, DiskFrames(t)>>

\* data lists of at least two rows (np.loadtxt returns a one-dimensional
\* array for a file of one row), each trial listed once
DataLists ==
    UNION {{dl \in [1..n -> {RowOf(t) : t \in Trials}] :
                \A i, j \in 1..n : i # j => dl[i] # dl[j]} : n \in 2..MaxRows}

TransformDict(H_new, W_new) ==
    [resize |-> [H_new |-> H_new, W_new |-> W_new], gvar |-> None, aug |-> None]

Configs ==
    [data_root : {"data_root"},
     cache : BOOLEAN,
     n_cache_workers : 1..MaxWorkers,
     T : 2..MaxT,
     D : {2},
     num_classes : {14},
     transforms : {[train |-> TransformDict(1, NPix), eval |-> TransformDict(1, NPix)],
                   [train |-> TransformDict(2, NPix), eval |-> TransformDict(1, NPix)]}]

NewCache == [tag |-> "ok", joint |-> <<>>, image |-> <<>>]
NoStats == [tag |-> "ok", preds |-> <<>>, labels |-> <<>>]

Init ==
    /\ pc = "main"
    /\ data_list \in DataLists
    /\ config \in Configs
    /\ tasks = <<>>
    /\ worker = <<>>
    /\ results = <<>>
    /\ imap_pos = 0
    /\ building = None
    /\ cache = None
    /\ subjects = <<>>
    /\ fold = 0
    /\ val_list = <<>>
    /\ item = 0
    /\ sample = None
    /\ fold_stats = None
    /\ all_preds = <<>>
    /\ all_labels = <<>>
    /\ preds_file = None
    /\ error = None
    /\ gs = [start |-> 0, end |-> 0, T |-> 1, out |-> <<>>, done |-> FALSE]
    /\ nz = [image |-> <<0>>, out |-> <<>>, done |-> FALSE]

\* main up to the call of init_cache (eval_DHG.py:78-97), and init_cache up
\* to its loop: the pool exists and pool.imap has queued one task per row
Main_start ==
    /\ pc = "main"
    /\ IF config.cache
       THEN /\ pc' = "init_cache"
            /\ tasks' = [i \in 1..Len(data_list) |-> "queued"]
            /\ worker' = [w \in 1..config.n_cache_workers |-> 0]
            /\ results' = [i \in 1..Len(data_list) |-> None]
            /\ building' = NewCache
       ELSE /\ pc' = "subjects"
            /\ UNCHANGED <<tasks, worker, results, building>>
    /\ UNCHANGED <<data_list, config, imap_pos, cache, subjects, fold, val_list,
                   item, sample, fold_stats, all_preds, all_labels, preds_file,
                   error, gs, nz>>

\* an idle pool worker takes the first queued row
WorkerTake(w) ==
    /\ pc = "init_cache"
    /\ worker[w] = 0
    /\ \E i \in 1..Len(tasks) :
          /\ tasks[i] = "queued"
          /\ \A j \in 1..(i - 1) : tasks[j] # "queued"
          /\ tasks' = [tasks EXCEPT ![i] = "running"]
          /\ worker' = [worker EXCEPT ![w] = i]
    /\ UNCHANGED <<pc, data_list, config, results, imap_pos, building, cache,
                   subjects, fold, val_list, item, sample, fold_stats, all_preds,
                   all_labels, preds_file, error, gs, nz>>

\* a pool worker ends loader_fn(row): the pair, or the exception it raised,
\* goes back to the parent
WorkerFinish(w) ==
    /\ pc = "init_cache"
    /\ worker[w] # 0
    /\ results' = [results EXCEPT ![worker[w]] =
                      get_image_joint(data_list[worker[w]], config.data_root,
                                      config.T, config.D, config.transforms.train)]
    /\ tasks' = [tasks EXCEPT ![worker[w]] = "done"]
    /\ worker' = [worker EXCEPT ![w] = 0]
    /\ UNCHANGED <<pc, data_list, config, imap_pos, building, cache, subjects,
                   fold, val_list, item, sample, fold_stats, all_preds,
                   all_labels, preds_file, error, gs, nz>>

\* the loop of init_cache with a failed row skipped instead of raised
InitCacheLoop_skip ==
    /\ pc = "init_cache"
    /\ IF imap_pos = Len(data_list)
       THEN /\ \A w \in DOMAIN worker : worker[w] = 0
            /\ cache' = building
            /\ pc' = "subjects"
            /\ UNCHANGED <<imap_pos, building, error>>
       ELSE /\ ~IsNone(results[imap_pos + 1])
            /\ imap_pos' = imap_pos + 1
            /\ IF IsErr(results[imap_pos + 1])
               THEN UNCHANGED building
               ELSE building' =
                       [building EXCEPT
                           !.joint = Append(@, results[imap_pos + 1].joint),
                           !.image = Append(@, results[imap_pos + 1].image)]
            /\ UNCHANGED <<pc, cache, error>>
    /\ UNCHANGED <<data_list, config, tasks, worker, results, subjects, fold,
                   val_list, item, sample, fold_stats, all_preds, all_labels,
                   preds_file, gs, nz>>

\* one turn of init_cache's loop over pool.imap, which yields the results in
\* the order of the rows and re-raises a worker's exception; after the last
\* row, pool.close(), pool.join() and the return to main
InitCacheLoop ==
    /\ pc = "init_cache"
    /\ IF imap_pos = Len(data_list)
       THEN /\ \A w \in DOMAIN worker : worker[w] = 0
            /\ cache' = building
            /\ pc' = "subjects"
            /\ UNCHANGED <<imap_pos, building, error>>
       ELSE /\ ~IsNone(results[imap_pos + 1])
            /\ imap_pos' = imap_pos + 1
            /\ IF IsErr(results[imap_pos + 1])
               THEN /\ error' = results[imap_pos + 1]
                    /\ pc' = "aborted"
                    /\ UNCHANGED building
               ELSE /\ building' =
                          [building EXCEPT
                              !.joint = Append(@, results[imap_pos + 1].joint),
                              !.image = Append(@, results[imap_pos + 1].image)]
                    /\ UNCHANGED <<pc, error>>
            /\ UNCHANGED cache
    /\ UNCHANGED <<data_list, config, tasks, worker, results, subjects, fold,
                   val_list, item, sample, fold_stats, all_preds, all_labels,
                   preds_file, gs, nz>>

\* np.hstack of a list of one-dimensional arrays
RECURSIVE hstack(_)
hstack(arrays) ==
    IF arrays = <<>> THEN <<>> ELSE Head(arrays) \o hstack(Tail(arrays))

\* the rows of preds_labels.txt (eval_DHG.py:130-132)
preds_labels(preds, labels) ==
    LET p == hstack(preds)
        l == hstack(labels)
    IN  [k \in 1..Len(p) |-> <<p[k], l[k]>>]

\* eval_DHG.py:103-104
Main_subjects ==
    /\ pc = "subjects"
    /\ subjects' = unique_subjects(data_list)
    /\ all_preds' = <<>>
    /\ all_labels' = <<>>
    /\ pc' = "loop"
    /\ UNCHANGED <<data_list, config, tasks, worker, results, imap_pos, building,
                   cache, fold, val_list, item, sample, fold_stats, preds_file,
                   error, gs, nz>>

\* the head of `for sub in subjects`: the next fold enters training_pipeline
\* up to its evaluation run (eval_DHG.py:105-125, 44-48); with no subject
\* left, the results are stacked and saved (eval_DHG.py:130-135)
Main_loop ==
    /\ pc = "loop"
    /\ IF fold < Len(subjects)
       THEN /\ val_list' = held_out(data_list, subjects[fold + 1])
            /\ fold' = fold + 1
            /\ item' = 0
            /\ fold_stats' = NoStats
            /\ pc' = "evaluate"
            /\ UNCHANGED preds_file
       ELSE /\ preds_file' = Ok(preds_labels(all_preds, all_labels))
            /\ pc' = "done"
            /\ UNCHANGED <<val_list, fold, item, fold_stats>>
    /\ UNCHANGED <<data_list, config, tasks, worker, results, imap_pos, building,
                   cache, subjects, sample, all_preds, all_labels, error, gs, nz>>

\* utils.trainer.evaluate_stats, one turn: the loader (shuffle = False) draws
\* the next held-out row through __getitem__ and the model's prediction is
\* recorded with the label; an exception of __getitem__ ends main.  After the
\* last row the fold's stats return to main (eval_DHG.py:127-128)
Evaluate ==
    /\ pc = "evaluate"
    /\ IF item < Len(val_list)
       THEN LET s == getitem(get_loader(val_list, config, cache, FALSE), item)
            IN  /\ sample' = s
                /\ item' = item + 1
                /\ IF IsErr(s)
                   THEN /\ error' = s
                        /\ pc' = "aborted"
                        /\ UNCHANGED fold_stats
                   ELSE /\ \E pred \in 0..(config.num_classes - 1) :
                              fold_stats' =
                                  [fold_stats EXCEPT
                                      !.preds = Append(@, pred),
                                      !.labels = Append(@, s.label)]
                        /\ UNCHANGED <<pc, error>>
                /\ UNCHANGED <<all_preds, all_labels>>
       ELSE /\ all_preds' = Append(all_preds, fold_stats.preds)
            /\ all_labels' = Append(all_labels, fold_stats.labels)
            /\ pc' = "loop"
            /\ UNCHANGED <<sample, item, fold_stats, error>>
    /\ UNCHANGED <<data_list, config, tasks, worker, results, imap_pos, building,
                   cache, subjects, fold, val_list, preds_file, gs, nz>>

Next ==
    \/ Main_start
    \/ \E w \in DOMAIN worker : WorkerTake(w)
    \/ \E w \in DOMAIN worker : WorkerFinish(w)
    \/ InitCacheLoop
    \/ Main_subjects
    \/ Main_loop
    \/ Evaluate

Spec == Init /\ [][Next]_vars

----------------------------------------------------------------------------
(* One call of get_samples, and one call of normalize *)

GsIdle == [start |-> 0, end |-> 0, T |-> 1, out |-> <<>>, done |-> FALSE]
NzIdle == [image |-> <<0>>, out |-> <<>>, done |-> FALSE]

MainOff ==
    /\ pc = "off"
    /\ data_list = <<>>
    /\ config = None
    /\ tasks = <<>>
    /\ worker = <<>>
    /\ results = <<>>
    /\ imap_pos = 0
    /\ building = None
    /\ cache = None
    /\ subjects = <<>>
    /\ fold = 0
    /\ val_list = <<>>
    /\ item = 0
    /\ sample = None
    /\ fold_stats = None
    /\ all_preds = <<>>
    /\ all_labels = <<>>
    /\ preds_file = None
    /\ error = None

InitSamples ==
    /\ MainOff
    /\ nz = NzIdle
    /\ \E start \in (-MaxStart)..MaxStart, span \in 0..MaxSpan, T \in 1..(MaxSpan + 2) :
          gs = [start |-> start, end |-> start + span, T |-> T,
                out |-> <<>>, done |-> FALSE]

GetSamplesCall ==
    /\ ~gs.done
    /\ gs' = [gs EXCEPT !.out = get_samples(gs.start, gs.end, gs.T), !.done = TRUE]
    /\ UNCHANGED <<mainVars, nz>>

SpecSamples == InitSamples /\ [][GetSamplesCall]_vars

\* the pixel values of the images that are not constant
PixVals == {0, 1, 100, PixelMax}

Images ==
    {[p \in 1..NPix |-> v] : v \in 0..PixelMax} \cup [1..NPix -> PixVals]

InitNormalize ==
    /\ MainOff
    /\ gs = GsIdle
    /\ \E image \in Images : nz = [image |-> image, out |-> <<>>, done |-> FALSE]

NormalizeCall ==
    /\ ~nz.done
    /\ nz' = [nz EXCEPT !.out = normalize(nz.image), !.done = TRUE]
    /\ UNCHANGED <<mainVars, gs>>

SpecNormalize == InitNormalize /\ [][NormalizeCall]_vars

----------------------------------------------------------------------------
(* get_samples: C4, C5 *)

GsN == gs.end - gs.start + 1
GsCount == Len(gs.out) = Min(gs.T, GsN)
GsInRange == \A i \in 1..Len(gs.out) : gs.start <= gs.out[i] /\ gs.out[i] <= gs.end
GsStrict == \A i \in 1..(Len(gs.out) - 1) : gs.out[i] < gs.out[i + 1]
GsMonotone == \A i \in 1..(Len(gs.out) - 1) : gs.out[i] <= gs.out[i + 1]

\* C4 as claimed: for all integers start <= end and T >= 1, get_samples returns
\* min(T, N) indices, all within [start, end], strictly increasing.
C4_Original ==
    (gs.done /\ gs.end >= gs.start /\ gs.T >= 1)
        => (GsCount /\ GsInRange /\ GsStrict)

\* C4 amended: for all integers start <= end and T >= 1, get_samples returns
\* min(T, N) indices, all within [start, end], in non-decreasing order, and
\* strictly increasing whenever start >= 0 (truncation toward zero maps two
\* neighbouring positions either side of zero to index 0 when start < 0).
C4_WellFormed ==
    (gs.done /\ gs.end >= gs.start /\ gs.T >= 1)
        => /\ GsCount
           /\ GsInRange
           /\ GsMonotone
           /\ (gs.start >= 0 => GsStrict)

\* a subsampling call (N > T >= 3, start > 0) whose evenly spaced positions are
\* not all integers
C4_Witness ==
    /\ gs.done
    /\ gs.start > 0
    /\ gs.T >= 3
    /\ GsN > gs.T
    /\ (GsN - 1) % (gs.T - 1) # 0
    /\ Len(gs.out) = gs.T

\* C5 as claimed: whenever N >= T >= 1, the first index is start and the last
\* index is end.
C5_Original ==
    (gs.done /\ gs.T >= 1 /\ GsN >= gs.T)
        => (gs.out[1] = gs.start /\ gs.out[Len(gs.out)] = gs.end)

\* C5 amended: whenever N >= T >= 1 the first index is start; the last index
\* is end when T >= 2, and for T = 1 the only index returned is start.
C5_Endpoints ==
    (gs.done /\ gs.T >= 1 /\ GsN >= gs.T)
        => /\ Len(gs.out) >= 1
           /\ gs.out[1] = gs.start
           /\ (gs.T >= 2 => gs.out[Len(gs.out)] = gs.end)
           /\ (gs.T = 1 => gs.out = <<gs.start>>)

\* a proper subsampling (N > T >= 2) has returned
C5_Witness ==
    /\ gs.done
    /\ gs.T >= 2
    /\ GsN > gs.T
    /\ gs.out[Len(gs.out)] = gs.end
    /\ gs.end > gs.start

----------------------------------------------------------------------------
(* normalize: C6 *)

NzConstant == \A p \in 1..Len(nz.image) : nz.image[p] = nz.image[1]

\* C6 as claimed: normalize returns a constant image unchanged.
C6_Original ==
    (nz.done /\ NzConstant) => nz.out = nz.image

\* C6 amended: for a constant image of any value v in 0..255, normalize
\* returns the all-zero image of the same size (the denominator is 1, so
\* nothing is divided by zero, and v - i_min = 0 for every pixel).
C6_ConstantToZero ==
    (nz.done /\ NzConstant)
        => /\ Len(nz.out) = Len(nz.image)
           /\ \A p \in 1..Len(nz.out) : nz.out[p] = 0

\* a constant image of a value other than zero has been normalized
C6_Witness ==
    /\ nz.done
    /\ NzConstant
    /\ nz.image[1] = PixelMax
    /\ nz.out[1] = 0

----------------------------------------------------------------------------
(* The evaluation run: C1, C2, C3, C7, C8, C9, C10 *)

NumRows == Len(data_list)

\* the evaluation dataset that get_loader(train = False) builds
EvalDataset == get_loader(val_list, config, cache, FALSE)

\* the row of the last __getitem__ call
SampleRow == val_list[item]

\* the frames 0 .. n-1 of a trial
AllFrames(n) == [i \in 1..n |-> i - 1]

JointPath(row) == [base_dir |-> config.data_root, ident |-> SubSeq(row, 1, 4),
                   D |-> config.D]
ImageDir(row) == [base_dir |-> config.data_root, ident |-> SubSeq(row, 1, 4)]

\* C1 as claimed: every pair loaded for the cache is a (joint, image) pair and
\* is identical to the pair the no-cache path of the evaluation dataset
\* (get_image_joint with that dataset's base_dir, T, D and transform_dict)
\* produces for the same row.
C1_Claim ==
    pc # "off" =>
        \A i \in DOMAIN results :
            ~IsNone(results[i]) =>
                /\ IsOk(results[i])
                /\ results[i] =
                       get_image_joint(data_list[i], EvalDataset.base_dir,
                                       EvalDataset.T, EvalDataset.D,
                                       EvalDataset.transform_dict)

\* C2 as claimed: once init_cache is over, main holds a cache with exactly one
\* joint entry and one image entry per row of the data list, the entries at
\* position i being what the pool loaded for row i.
C2_Claim ==
    (pc \in {"subjects", "loop", "evaluate", "done", "aborted"} /\ config.cache)
        => /\ IsOk(cache)
           /\ Len(cache.joint) = NumRows
           /\ Len(cache.image) = NumRows
           /\ \A i \in 1..NumRows :
                 /\ IsOk(results[i])
                 /\ cache.joint[i] = results[i].joint
                 /\ cache.image[i] = results[i].image

\* C3: once the loading of a row has failed inside a pool worker, main never
\* holds a cache, no fold is started and no dataset item is ever read; when
\* the loop of init_cache reaches a failed row, its exception ends main.
C3_AllOrNothing ==
    (pc # "off" /\ \E i \in DOMAIN results : IsErr(results[i]))
        => /\ IsNone(cache)
           /\ fold = 0
           /\ IsNone(sample)
           /\ pc \in {"init_cache", "aborted"}
           /\ (imap_pos > 0 /\ IsErr(results[imap_pos]))
                 => (pc = "aborted" /\ error = results[imap_pos])

\* a row failed in its worker, a later row had failed before it was reached,
\* and the exception has ended main before any fold
C3_Witness ==
    /\ pc = "aborted"
    /\ config.cache
    /\ IsErr(error)
    /\ imap_pos = 1
    /\ \E i \in 2..NumRows : IsErr(results[i])
    /\ IsNone(cache)
    /\ fold = 0

\* C7 as claimed: __getitem__ on a row with frame_count < T returns T-frame
\* joint and image tensors whose first frame_count frames are the trial's
\* frames in order and whose remaining frames are all zero.
C7_Claim ==
    (pc # "off" /\ ~IsNone(sample) /\ SampleRow[7] < config.T)
        => LET n == SampleRow[7]
               real_joint == load_joints(JointPath(SampleRow), AllFrames(n),
                                         config.T).val
               real_image == load_image_sequence(ImageDir(SampleRow), AllFrames(n),
                                 config.T, EvalDataset.transform_dict).val
           IN  /\ IsOk(sample)
               /\ Len(sample.joint) = config.T
               /\ Len(sample.image) = config.T
               /\ \A i \in 1..n :
                     /\ sample.joint[i] = real_joint[i]
                     /\ \A p \in 1..Len(real_image[i]) :
                           sample.image[i][p] = <<real_image[i][p], PixelMax>>
               /\ \A i \in (n + 1)..config.T :
                     /\ \A k \in 1..Len(sample.joint[i]) : sample.joint[i][k] = 0
                     /\ \A p \in 1..Len(sample.image[i]) : sample.image[i][p][1] = 0

\* C8 as claimed: without a cache, __getitem__ on a row with frame_count
\* N >= T returns T-frame joint and image tensors, loaded at the indices
\* get_samples(0, N - 1, T), which include frame 0 and frame N - 1.
C8_Claim ==
    (pc # "off" /\ ~IsNone(sample) /\ IsNone(cache) /\ SampleRow[7] >= config.T)
        => LET n == SampleRow[7]
               frame_idxs == get_samples(0, n - 1, config.T)
           IN  /\ IsOk(sample)
               /\ frame_idxs[1] = 0
               /\ frame_idxs[Len(frame_idxs)] = n - 1
               /\ Len(sample.joint) = config.T
               /\ Len(sample.image) = config.T
               /\ sample.joint =
                      load_joints(JointPath(SampleRow), frame_idxs, config.T).val

C10_Claim ==
    /\ (pc \in {"done", "aborted"})
          => /\ pc = "done"
             /\ fold = Cardinality({data_list[i][3] : i \in 1..NumRows})
             /\ IsOk(preds_file)
             /\ Len(preds_file.val) = NumRows
    /\ (pc # "off" /\ ~IsNone(preds_file))
          => (pc = "done" /\ fold = Len(subjects))

====
